---- MODULE Spec2Model ----
(***************************************************************************)
(* Model of the presigned-upload-URL service (main.go).                    *)
(*                                                                         *)
(* One HTTP route, POST /get-upload-url, served by GetUploadURLHandler.    *)
(* Each request runs in its own goroutine; the steps of one request are    *)
(* interleaved with the steps of the others and with the wall clock.       *)
(*                                                                         *)
(* Strings on which the code computes (file name, host, object URL, the    *)
(* usage hints) are sequences of one-character strings; fixed messages    *)
(* are plain strings.  time.Time is a count of wall-clock seconds;         *)
(* time.Duration is a count of nanoseconds kept in two base-10^6 limbs     *)
(* because 10 minutes is 600000000000 ns.                                  *)
(***************************************************************************)
EXTENDS Integers, Sequences, FiniteSets, TLC

(* ------------------------------ bounds -------------------------------- *)

\* number of requests served
NumReq == 2

\* how many seconds the wall clock may advance during a run
MaxTick == 3

Requests == 1..NumReq

\* wall-clock reading at which a run may start: 2026-12-31 23:59:58, so
\* that the seconds, the minute, the hour, the day, the month and the
\* year all roll over during a run
StartTimes == {1798761598}

\* values of the AWS_BUCKET environment variable
Buckets == {<<"b">>, <<"u", "p">>}

(* ------------------------- strings and numbers ------------------------ *)

Digits == <<"0", "1", "2", "3", "4", "5", "6", "7", "8", "9">>

RECURSIVE DecNat(_)
\* decimal digits of a natural number, as %d prints it
DecNat(n) == IF n < 10 THEN <<Digits[n + 1]>>
             ELSE DecNat(n \div 10) \o <<Digits[(n % 10) + 1]>>

\* %d of an int64
FormatInt(n) == IF n < 0 THEN <<"-">> \o DecNat(0 - n) ELSE DecNat(n)

RECURSIVE Pad(_, _)
\* n in decimal, zero-padded on the left to width w
Pad(n, w) == IF w <= 1 THEN DecNat(n)
             ELSE IF Len(DecNat(n)) >= w THEN DecNat(n)
             ELSE <<"0">> \o Pad(n, w - 1)

HasSuffix(s, suf) ==
    /\ Len(s) >= Len(suf)
    /\ SubSeq(s, Len(s) - Len(suf) + 1, Len(s)) = suf

(* --------------------------- time.Duration ---------------------------- *)

Limb == 10 ^ 6

\* time.Minute = 60 * 10^9 ns
Minute == [hi |-> 60000, lo |-> 0]

\* n * d for an untyped constant n
DurMul(n, d) == [hi |-> n * d.hi + ((n * d.lo) \div Limb),
                 lo |-> (n * d.lo) % Limb]

\* whole seconds in a duration
DurSeconds(d) == d.hi \div 1000

\* %d of a time.Duration: its int64 value, the count of nanoseconds
FormatDuration(d) == IF d.hi = 0 THEN DecNat(d.lo)
                     ELSE DecNat(d.hi) \o Pad(d.lo, 6)

(* ------------------------------ time.Time ----------------------------- *)

\* the civil date of a day number (days since 1970-01-01)
CivilFromDays(days) ==
    LET z   == days + 719468
        era == z \div 146097
        doe == z - era * 146097
        yoe == (doe - (doe \div 1460) + (doe \div 36524) - (doe \div 146096)) \div 365
        doy == doe - (365 * yoe + (yoe \div 4) - (yoe \div 100))
        mp  == (5 * doy + 2) \div 153
        d   == doy - ((153 * mp + 2) \div 5) + 1
        m   == IF mp < 10 THEN mp + 3 ELSE mp - 9
        y   == yoe + era * 400 + (IF m <= 2 THEN 1 ELSE 0)
    IN  [year |-> y, month |-> m, day |-> d]

Dash == <<"-">>

FormatTimeNoSeconds(t) ==
    LET c   == CivilFromDays(t \div 86400)
        sod == t % 86400
    IN  Pad(c.year, 4) \o Dash \o Pad(c.month, 2) \o Dash \o Pad(c.day, 2)
        \o Dash \o Pad(sod \div 3600, 2) \o Dash \o Pad((sod % 3600) \div 60, 2)
        \o Dash \o Pad(0, 2)

\* time.Time.Format("2006-01-02-15-04-05")
FormatTime(t) ==
    LET c   == CivilFromDays(t \div 86400)
        sod == t % 86400
    IN  Pad(c.year, 4) \o Dash \o Pad(c.month, 2) \o Dash \o Pad(c.day, 2)
        \o Dash \o Pad(sod \div 3600, 2) \o Dash \o Pad((sod % 3600) \div 60, 2)
        \o Dash \o Pad(sod % 60, 2)

\* time.Time.Add(d), to the second
TimeAdd(t, d) == t + DurSeconds(d)

(* ------------------------- request body decoding ---------------------- *)

\* the values a body may give to "content_length"
Fields == [t : {"absent", "float"}, v : {0}]
          \cup [t : {"int"}, v : {-1, 0, 1, 1048576, 1048577}]

\* request bodies: nothing at all, text that is not JSON, the JSON value
\* null, and JSON objects
Bodies == [kind : {"empty", "garbage", "null"}, field : {[t |-> "absent", v |-> 0]}]
          \cup [kind : {"object"}, field : Fields]

NoErr == [isNil |-> TRUE, msg |-> ""]
Err(m) == [isNil |-> FALSE, msg |-> m]

\* json.NewDecoder(r.Body).Decode(&body) into GeneratePresignedURLBody:
\* the error (nil on success) and the ContentLength left in body
Decode(b) ==
    CASE b.kind = "empty"   -> [err |-> Err("EOF"), ContentLength |-> 0]
      [] b.kind = "garbage" ->
            [err |-> Err("invalid character 'o' in literal null (expecting 'u')"),
             ContentLength |-> 0]
      [] b.kind = "null"    -> [err |-> NoErr, ContentLength |-> 0]
      [] b.kind = "object"  ->
            CASE b.field.t = "absent" -> [err |-> NoErr, ContentLength |-> 0]
              [] b.field.t = "int" -> [err |-> NoErr, ContentLength |-> b.field.v]
              [] b.field.t = "float" ->
                    [err |-> Err("json: cannot unmarshal number 1.5 into Go struct field GeneratePresignedURLBody.content_length of type int64"),
                     ContentLength |-> 0]

(* --------------------------- response envelope ------------------------ *)

ErrorAlwaysDetail(message, err) ==
    [success |-> FALSE, message |-> message, error |-> err.msg]

ErrorNoDetail(message, err) ==
    [success |-> FALSE, message |-> message]

\* Error(message, err)
Error(message, err) ==
    IF ~err.isNil
    THEN [success |-> FALSE, message |-> message, error |-> err.msg]
    ELSE [success |-> FALSE, message |-> message]

SuccessWithError(message, data) ==
    [success |-> TRUE, message |-> message, data |-> data, error |-> ""]

\* Success(message, data)
Success(message, data) ==
    [success |-> TRUE, message |-> message, data |-> data]

StatusOK == 200
StatusBadRequest == 400
StatusInternalServerError == 500

\* SendResponse(w, response, status): the writes made on w
SendResponse(wr, response, status) ==
    Append(wr, [contentType |-> "application/json",
                status |-> status, body |-> response])

(* ------------------------------ validation ----------------------------- *)

MAX_UPLOAD_SIZE == 1048576

InvalidContentLengthZeroOk(cl) == cl < 0 \/ cl > MAX_UPLOAD_SIZE

\* body.ContentLength <= 0 || body.ContentLength > MAX_UPLOAD_SIZE
InvalidContentLength(cl) == cl <= 0 \/ cl > MAX_UPLOAD_SIZE

FallThrough == "sign"

\* the return that follows a rejection
ReturnAfterReject == "done"

(* ------------------------------ the signer ----------------------------- *)

\* uploadTimeout := 10 * time.Minute
uploadTimeout == DurMul(10, Minute)

FileNameNoSeconds(now) == FormatTimeNoSeconds(now) \o <<".", "p", "n", "g">>

\* fmt.Sprintf("%s.png", time.Now().Format("2006-01-02-15-04-05"))
FileName(now) == FormatTime(now) \o <<".", "p", "n", "g">>

ZeroParam == [FileName |-> <<>>, Timout |-> [hi |-> 0, lo |-> 0],
              ContentLength |-> 0, Bucket |-> <<>>, ContentType |-> ""]

\* the GeneratePresignedURLParam the handler passes
Param(now, cl, bucketName) ==
    [FileName |-> FileName(now), Timout |-> uploadTimeout,
     ContentLength |-> cl, Bucket |-> bucketName, ContentType |-> "image/png"]

\* svc.PutObjectRequest(...) followed by req.Presign(param.Timout): the URL
\* is opaque; it stands for the request it was signed for
PresignedFor(p) ==
    [Bucket |-> p.Bucket, Key |-> p.FileName, ContentType |-> p.ContentType,
     ContentLength |-> p.ContentLength, Expire |-> p.Timout]

HostFixed(bucket) == <<"b">> \o <<".", "s", "3", ".", "a", "m", "a", "z", "o", "n", "a", "w", "s", ".", "c", "o", "m">>

\* fmt.Sprintf("%s.s3.amazonaws.com", param.Bucket)
Host(bucket) ==
    bucket \o <<".", "s", "3", ".", "a", "m", "a", "z", "o", "n", "a", "w", "s", ".", "c", "o", "m">>

ObjectUrlNoSlash(host, fileName) ==
    <<"h", "t", "t", "p", "s", ":", "/", "/">> \o host \o fileName

\* fmt.Sprintf("https://%s/%s", res.Host, param.FileName)
ObjectUrl(host, fileName) ==
    <<"h", "t", "t", "p", "s", ":", "/", "/">> \o host \o <<"/">> \o fileName

ExpirationTimeNoTTL(now, timout) == now

\* time.Now().Add(param.Timout)
ExpirationTime(now, timout) == TimeAdd(now, timout)

\* fmt.Sprintf("The URL will expire after %d minutes", param.Timout)
ExpiryHint(timout) ==
    <<"T", "h", "e", " ", "U", "R", "L", " ", "w", "i", "l", "l", " ", "e", "x", "p", "i", "r", "e", " ", "a", "f", "t", "e", "r", " ">>
    \o FormatDuration(timout) \o <<" ", "m", "i", "n", "u", "t", "e", "s">>

\* fmt.Sprintf("The maximum upload size is %d bytes", param.ContentLength)
SizeHint(cl) ==
    <<"T", "h", "e", " ", "m", "a", "x", "i", "m", "u", "m", " ", "u", "p", "l", "o", "a", "d", " ", "s", "i", "z", "e", " ", "i", "s", " ">>
    \o FormatInt(cl) \o <<" ", "b", "y", "t", "e", "s">>

\* the GeneratePresignedURLResponse filled in after a successful Presign
PresignedURLResponse(p, urlStr, now) ==
    [method           |-> "PUT",
     pre_assigned_url |-> urlStr,
     file_name        |-> p.FileName,
     expiration_time  |-> ExpirationTime(now, p.Timout),
     host             |-> Host(p.Bucket),
     details          |-> <<"Use the pre-signed URL to upload the file",
                            ExpiryHint(p.Timout), SizeHint(p.ContentLength)>>,
     object_url       |-> ObjectUrl(Host(p.Bucket), p.FileName)]

SignerFailureAsOK(err) ==
    [status |-> StatusOK, body |-> Success("failed to create AWS session", err.msg)]

\* what the handler sends when GeneratePresignedURL returns an error
SignerFailure(err) ==
    [status |-> StatusInternalServerError,
     body   |-> Error("failed to create AWS session", err)]

(* ------------------------------ the state ------------------------------ *)

VARIABLES
    env,          \* process environment: the value of AWS_BUCKET
    clock,        \* the wall clock, in seconds
    ticks,        \* seconds elapsed since the start of the run
    pc,           \* where each request's goroutine stands
    reqBody,      \* r.Body of each request
    body,         \* the decoded GeneratePresignedURLBody.ContentLength
    param,        \* the GeneratePresignedURLParam of a call in progress
    w,            \* the responses written on each request's ResponseWriter
    signerCalls,  \* times GeneratePresignedURL ran for each request
    signerResult, \* how GeneratePresignedURL ended for each request
    nameClock,    \* the clock reading that produced fileName (kept for
                  \* calls in progress and for served requests)
    resClock      \* the clock reading that produced ExpirationTime

vars == <<env, clock, ticks, pc, reqBody, body, param, w,
          signerCalls, signerResult, nameClock, resClock>>

NoBody == [kind |-> "none", field |-> [t |-> "absent", v |-> 0]]

Init ==
    /\ env \in [AWS_BUCKET : Buckets]
    /\ clock \in StartTimes
    /\ ticks = 0
    /\ pc = [r \in Requests |-> "idle"]
    /\ reqBody = [r \in Requests |-> NoBody]
    /\ body = [r \in Requests |-> 0]
    /\ param = [r \in Requests |-> ZeroParam]
    /\ w = [r \in Requests |-> <<>>]
    /\ signerCalls = [r \in Requests |-> 0]
    /\ signerResult = [r \in Requests |-> "none"]
    /\ nameClock = [r \in Requests |-> 0]
    /\ resClock = [r \in Requests |-> 0]

\* the wall clock advances by one second
Tick ==
    /\ ticks < MaxTick
    /\ clock' = clock + 1
    /\ ticks' = ticks + 1
    /\ UNCHANGED <<env, pc, reqBody, body, param, w, signerCalls,
                   signerResult, nameClock, resClock>>

\* GetUploadURLHandler up to the call of GeneratePresignedURL, for request r
\* with body b (requests are numbered in the order of their arrival):
\* decode, check the content length, read the clock and the environment
Handle(r, b) ==
    /\ pc[r] = "idle"
    /\ r > 1 => pc[r - 1] /= "idle"
    /\ reqBody' = [reqBody EXCEPT ![r] = b]
    /\ LET d == Decode(b) IN
         IF ~d.err.isNil
         THEN /\ w' = [w EXCEPT ![r] = SendResponse(@,
                           Error("invalid request body", d.err), StatusBadRequest)]
              /\ pc' = [pc EXCEPT ![r] = "done"]
              /\ UNCHANGED <<body, param, nameClock>>
         ELSE /\ body' = [body EXCEPT ![r] = d.ContentLength]
              /\ IF InvalidContentLength(d.ContentLength)
                 THEN /\ w' = [w EXCEPT ![r] = SendResponse(@,
                                   Error("invalid content length", NoErr),
                                   StatusBadRequest)]
                      /\ pc' = [pc EXCEPT ![r] = ReturnAfterReject]
                      /\ UNCHANGED <<param, nameClock>>
                 ELSE /\ param' = [param EXCEPT ![r] =
                                      Param(clock, d.ContentLength, env.AWS_BUCKET)]
                      /\ nameClock' = [nameClock EXCEPT ![r] = clock]
                      /\ pc' = [pc EXCEPT ![r] = "sign"]
                      /\ UNCHANGED w
    /\ UNCHANGED <<env, clock, ticks, signerCalls, signerResult, resClock>>

\* what session.NewSession and req.Presign may do
Outcomes == {"session error", "sign error", "signed"}

\* GeneratePresignedURL up to the return of req.Presign.  When the session
\* or the signature fails it returns an error and the handler answers 500
Sign(r) ==
    /\ pc[r] = "sign"
    /\ signerCalls' = [signerCalls EXCEPT ![r] = @ + 1]
    /\ \E o \in Outcomes :
         /\ signerResult' = [signerResult EXCEPT ![r] = o]
         /\ IF o = "signed"
            THEN /\ pc' = [pc EXCEPT ![r] = "result"]
                 /\ UNCHANGED <<w, param, nameClock>>
            ELSE LET f == SignerFailure(
                             IF o = "session error"
                             THEN Err("failed to create AWS session")
                             ELSE Err("failed to sign request")) IN
                 /\ w' = [w EXCEPT ![r] = SendResponse(@, f.body, f.status)]
                 /\ pc' = [pc EXCEPT ![r] = "done"]
                 /\ param' = [param EXCEPT ![r] = ZeroParam]
                 /\ nameClock' = [nameClock EXCEPT ![r] = 0]
    /\ UNCHANGED <<env, clock, ticks, reqBody, body, resClock>>

\* GeneratePresignedURL fills in the result (reading the clock again) and
\* the handler answers 200 with it
SendResult(r) ==
    /\ pc[r] = "result"
    /\ LET res == PresignedURLResponse(param[r], PresignedFor(param[r]), clock) IN
         w' = [w EXCEPT ![r] = SendResponse(@,
                   Success("pre-signed URL generated",
                           [method           |-> res.method,
                            pre_assigned_url |-> res.pre_assigned_url,
                            expiration_time  |-> res.expiration_time,
                            file_name        |-> res.file_name,
                            host             |-> res.host,
                            details          |-> res.details,
                            object_url       |-> res.object_url]),
                   StatusOK)]
    /\ resClock' = [resClock EXCEPT ![r] = clock]
    /\ param' = [param EXCEPT ![r] = ZeroParam]
    /\ pc' = [pc EXCEPT ![r] = "done"]
    /\ UNCHANGED <<env, clock, ticks, reqBody, body, signerCalls,
                   signerResult, nameClock>>

Next ==
    \/ Tick
    \/ \E r \in Requests, b \in Bodies : Handle(r, b)
    \/ \E r \in Requests : Sign(r)
    \/ \E r \in Requests : SendResult(r)

Spec == Init /\ [][Next]_vars

(* ------------------------------ properties ----------------------------- *)

Received(r) == pc[r] /= "idle"
Done(r) == pc[r] = "done"
Decodes(r) == Received(r) /\ Decode(reqBody[r]).err.isNil
DecodedLength(r) == Decode(reqBody[r]).ContentLength

\* request r was answered with exactly one response, of status st
Answered(r, st) == Len(w[r]) = 1 /\ w[r][1].status = st
Served(r) == Answered(r, 200)
Data(r) == w[r][1].body.data

PngSuffix == <<".", "p", "n", "g">>
HttpsPrefix == <<"h", "t", "t", "p", "s", ":", "/", "/">>
AwsDomain == <<".", "s", "3", ".", "a", "m", "a", "z", "o", "n", "a", "w", "s", ".", "c", "o", "m">>

DescriptorWellFormed(d) ==
    /\ HasSuffix(d.file_name, PngSuffix)
    /\ d.object_url = HttpsPrefix \o d.host \o <<"/">> \o d.file_name

\* C1 (as stated): every request whose body decodes to a content_length
\* in (0, 1048576] is answered 200 with a descriptor whose file_name ends
\* in ".png" and whose object_url is "https://" + host + "/" + file_name.
C1_AlwaysOK ==
    \A r \in Requests :
        (Done(r) /\ Decodes(r) /\ DecodedLength(r) > 0 /\ DecodedLength(r) <= 1048576)
        => /\ Served(r)
           /\ DescriptorWellFormed(Data(r))

\* C1 (amended): a request whose body decodes to a content_length in
\* (0, 1048576] is answered 200 exactly when GeneratePresignedURL succeeds
\* (500 when it fails), and the descriptor of every such 200 has a
\* file_name ending in ".png" and object_url = "https://" + host + "/" +
\* file_name.
C1_OKWhenSigned ==
    \A r \in Requests :
        (Done(r) /\ Decodes(r) /\ DecodedLength(r) > 0 /\ DecodedLength(r) <= 1048576)
        => IF signerResult[r] = "signed"
           THEN Served(r) /\ DescriptorWellFormed(Data(r))
           ELSE Answered(r, 500)

C1_Witness ==
    \E r1, r2 \in Requests :
        /\ Served(r1) /\ DecodedLength(r1) = 1
        /\ Served(r2) /\ DecodedLength(r2) = 1048576

\* C2: every request whose body decodes to a content_length <= 0 or
\* > 1048576 is answered 400 with success = false, never 200 or 500.
C2_OutOfRangeRejected ==
    \A r \in Requests :
        (Decodes(r) /\ (DecodedLength(r) <= 0 \/ DecodedLength(r) > 1048576))
        => /\ Done(r)
           /\ Answered(r, 400)
           /\ w[r][1].body.success = FALSE

C2_Witness ==
    \E r1, r2 \in Requests :
        /\ Decodes(r1) /\ DecodedLength(r1) = 0 /\ Answered(r1, 400)
        /\ Decodes(r2) /\ DecodedLength(r2) = 1048577 /\ Answered(r2, 400)

\* C3: every request whose body fails to decode is answered 400 with
\* success = false and a present, non-empty error field, and the response
\* is the decode failure's ("invalid request body"), not the
\* content-length check's.
C3_UndecodableRejected ==
    \A r \in Requests :
        (Received(r) /\ ~Decode(reqBody[r]).err.isNil)
        => /\ Done(r)
           /\ Answered(r, 400)
           /\ w[r][1].body.success = FALSE
           /\ "error" \in DOMAIN w[r][1].body
           /\ w[r][1].body.error /= ""
           /\ w[r][1].body.message = "invalid request body"

C3_Witness ==
    \E r \in Requests :
        /\ reqBody[r].kind = "garbage"
        /\ Answered(r, 400)
        /\ w[r][1].body.error /= ""

\* C4: every validated request on which GeneratePresignedURL fails, at
\* session creation or at signing, is answered 500 with success = false
\* and a non-empty error field, and no data.
C4_SignerFailureIs500 ==
    \A r \in Requests :
        signerResult[r] \in {"session error", "sign error"}
        => /\ Decodes(r) /\ DecodedLength(r) > 0 /\ DecodedLength(r) <= 1048576
           /\ Done(r)
           /\ Answered(r, 500)
           /\ w[r][1].body.success = FALSE
           /\ "error" \in DOMAIN w[r][1].body
           /\ w[r][1].body.error /= ""
           /\ "data" \notin DOMAIN w[r][1].body

C4_Witness ==
    \E r1, r2 \in Requests :
        /\ signerResult[r1] = "session error" /\ Answered(r1, 500)
        /\ signerResult[r2] = "sign error" /\ Answered(r2, 500)

\* C5 (as stated): every 400 or 500 response has exactly success = false,
\* a message and an error field; every 200 response has exactly
\* success = true, a message and data.
C5_OneErrorShape ==
    \A r \in Requests : \A i \in 1..Len(w[r]) :
        LET resp == w[r][i] IN
        /\ resp.status \in {400, 500}
           => /\ DOMAIN resp.body = {"success", "message", "error"}
              /\ resp.body.success = FALSE
        /\ resp.status = 200
           => /\ DOMAIN resp.body = {"success", "message", "data"}
              /\ resp.body.success = TRUE

\* C5 (amended): every 400 or 500 response has success = false and a
\* message; it has an error field on the invalid-body and signer-failure
\* paths and none on the invalid-content-length path.  Every 200 response
\* has exactly success = true, a message and data.
C5_ErrorShapes ==
    \A r \in Requests : \A i \in 1..Len(w[r]) :
        LET resp == w[r][i] IN
        /\ resp.status \in {200, 400, 500}
        /\ resp.status \in {400, 500}
           => /\ resp.body.success = FALSE
              /\ IF resp.body.message = "invalid content length"
                 THEN DOMAIN resp.body = {"success", "message"}
                 ELSE /\ DOMAIN resp.body = {"success", "message", "error"}
                      /\ resp.body.error /= ""
        /\ resp.status = 200
           => /\ DOMAIN resp.body = {"success", "message", "data"}
              /\ resp.body.success = TRUE

C5_Witness ==
    \E r1, r2 \in Requests :
        /\ Answered(r1, 400) /\ Decodes(r1)
        /\ Answered(r2, 500)

\* C6: two served requests whose file names were generated from the same
\* wall-clock second carry the same file_name, object key and object_url;
\* two whose file names were generated from different seconds carry
\* different file_names.
C6_NamePerSecond ==
    \A r1, r2 \in Requests :
        (Served(r1) /\ Served(r2))
        => /\ nameClock[r1] = nameClock[r2]
              => /\ Data(r1).file_name = Data(r2).file_name
                 /\ Data(r1).pre_assigned_url.Key = Data(r2).pre_assigned_url.Key
                 /\ Data(r1).object_url = Data(r2).object_url
           /\ nameClock[r1] /= nameClock[r2]
              => Data(r1).file_name /= Data(r2).file_name

C6_Witness ==
    \E r1, r2 \in Requests :
        /\ r1 /= r2
        /\ Served(r1) /\ Served(r2)
        /\ nameClock[r1] = nameClock[r2]
        /\ resClock[r1] /= resClock[r2]

\* C7 (as stated): in every 200 response expiration_time is the clock
\* read after signing plus 600 s, and it is within 2 s of the time the
\* file name was generated plus 600 s.
C7_WithinTolerance ==
    \A r \in Requests :
        Served(r)
        => /\ Data(r).expiration_time = resClock[r] + 600
           /\ Data(r).expiration_time - (nameClock[r] + 600) <= 2
           /\ (nameClock[r] + 600) - Data(r).expiration_time <= 2

\* C7 (amended): in every 200 response expiration_time is the clock read
\* inside GeneratePresignedURL after signing plus 600 s; its distance from
\* (file-name time + 600 s) is the time the clock moved between the two
\* reads, which nothing bounds.
C7_ExpiresTenMinutesAfterSigning ==
    \A r \in Requests :
        Served(r) => Data(r).expiration_time = resClock[r] + 600

C7_Witness ==
    \E r \in Requests :
        /\ Served(r)
        /\ resClock[r] - nameClock[r] > 2

\* C8: in every 200 response host is the configured bucket followed by
\* ".s3.amazonaws.com", whatever the content length, the file name and
\* the clock, and the PUT request was signed for that same bucket.
C8_HostFromBucket ==
    \A r \in Requests :
        Served(r)
        => /\ Data(r).host = env.AWS_BUCKET \o AwsDomain
           /\ Data(r).pre_assigned_url.Bucket = env.AWS_BUCKET

C8_Witness ==
    \E r1, r2 \in Requests :
        /\ env.AWS_BUCKET = <<"u", "p">>
        /\ Served(r1) /\ Served(r2)
        /\ DecodedLength(r1) /= DecodedLength(r2)
        /\ Data(r1).file_name /= Data(r2).file_name
        /\ Data(r1).host = Data(r2).host

\* C9: a request answered 400 never reaches GeneratePresignedURL; the
\* signer runs at most once per request and only after the body decoded
\* and the content length passed; a finished request has exactly one
\* response (one status code), an unfinished one none.
C9_NoSideEffectOnReject ==
    \A r \in Requests :
        /\ signerCalls[r] <= 1
        /\ Len(w[r]) = (IF Done(r) THEN 1 ELSE 0)
        /\ (Len(w[r]) >= 1 /\ w[r][1].status = 400) => signerCalls[r] = 0
        /\ signerCalls[r] > 0
           => /\ Decodes(r)
              /\ DecodedLength(r) > 0 /\ DecodedLength(r) <= 1048576

C9_Witness ==
    \E r1, r2 \in Requests :
        /\ Answered(r1, 400) /\ Decodes(r1) /\ signerCalls[r1] = 0
        /\ Served(r2) /\ signerCalls[r2] = 1

\* C10: in every 200 response the expiry hint gives the lifetime in
\* minutes: "The URL will expire after 10 minutes".
C10_HintInMinutes ==
    \A r \in Requests :
        Served(r)
        => Data(r).details[2] =
             <<"T", "h", "e", " ", "U", "R", "L", " ", "w", "i", "l", "l", " ", "e", "x", "p", "i", "r", "e", " ", "a", "f", "t", "e", "r", " ">>
             \o <<"1", "0">> \o <<" ", "m", "i", "n", "u", "t", "e", "s">>

====
